---- MODULE Spec2Model ----
(***************************************************************************)
(* Navigation subsystem of the game: GamePathFinder (game_navigation.py).  *)
(* The nav mesh, the A* search, the path cache, the asynchronous request   *)
(* path (event loop + ThreadPoolExecutor) and the dynamic obstacle update. *)
(*                                                                         *)
(* Threads.  The asyncio event loop is one thread: the bodies of the       *)
(* coroutines between two awaits, and the synchronous get_next_step, are   *)
(* its steps.  The executor's workers are other threads: a search or a     *)
(* mesh repair submitted with run_in_executor runs there, step by step,    *)
(* concurrently with the loop thread and with the other worker.            *)
(***************************************************************************)
EXTENDS Integers, Sequences, FiniteSets, TLC

\* ---------------------------------------------------------------- bounds
W == 3
H == 2
NumCallers == 1
MaxCalls == 2
MaxUpdates == 1
MaxToggles == 2

\* ThreadPoolExecutor(max_workers=2)
max_workers == 2

\* ----------------------------------------------------------------- cells
\* A cell is the tuple (x, y); the grid is mini_map[y][x].
GridCells == (0 .. W - 1) \X (0 .. H - 1)

\* The cells the callers ask about: two corners of the grid, the cell the
\* initial maps block, and a cell outside the grid.
InputCells == { <<0, 0>>, <<2, 1>>, <<1, 1>>, <<-1, 0>> }

NoCell == <<-9, -9>>

NoPath == << >>

EmptyMap == [c \in {} |-> c]

Abs(n) == IF n < 0 THEN -n ELSE n

Min(a, b) == IF a < b THEN a ELSE b

\* The cells where the game places and removes dynamic obstacles.
DynamicCells == { <<0, 0>>, <<1, 0>>, <<1, 1>> }

\* The occupancy grids the game may start with (sets of blocking cells).
InitialMaps ==
  { {},
    { <<0, 1>>, <<1, 0>>, <<1, 1>> } }

\* ------------------------------------------------------- mesh construction
\* The four orthogonal directions only.
directionsOrthogonal == << <<-1, 0>>, <<0, -1>>, <<1, 0>>, <<0, 1>> >>

directions ==
  << <<-1, 0>>, <<0, -1>>, <<1, 0>>, <<0, 1>>,
     <<-1, -1>>, <<1, -1>>, <<1, 1>>, <<-1, 1>> >>

repair_directions == << <<-1, 0>>, <<0, -1>>, <<1, 0>>, <<0, 1>> >>

\* [(x+dx, y+dy) for dx, dy in dirs if (x+dx, y+dy) in walkable]
NeighborList(node, dirs, walkable) ==
  LET cand == [i \in 1 .. Len(dirs) |->
                 <<node[1] + dirs[i][1], node[2] + dirs[i][2]>>]
  IN  SelectSeq(cand, LAMBDA n : n \in walkable)

\* np.where(map_data == 0), zipped as (x, y); cells are the indices of the
\* array, blocked the cells where it is nonzero.
_precompute_walkable(cells, blocked) == cells \ blocked

\* A walkable cell with no walkable neighbour gets no entry.
_build_nav_mesh(walkable) ==
  LET keys == { c \in walkable : NeighborList(c, directions, walkable) # << >> }
  IN  [c \in keys |-> NeighborList(c, directions, walkable)]

\* np.where(diff) yields (row, column) = (y, x) index arrays, and
\* zip(*...) pairs them in that order: the changed cell (x, y) is reported
\* as the tuple (y, x).
_detect_changes(old, current) ==
  { <<c[2], c[1]>> : c \in (old \ current) \cup (current \ old) }

\* The body of the repair loop for one node (lines 183-188).
RepairedMesh(mesh, node, walkable) ==
  IF node \in DOMAIN mesh
    THEN [mesh EXCEPT ![node] = NeighborList(node, repair_directions, walkable)]
    ELSE mesh

\* The mesh once the loop has treated every node of `changed`.
RECURSIVE FinalMesh(_, _, _)
FinalMesh(mesh, changed, walkable) ==
  IF changed = {} THEN mesh
  ELSE LET node == CHOOSE n \in changed : TRUE
       IN  FinalMesh(RepairedMesh(mesh, node, walkable), changed \ {node}, walkable)

\* ------------------------------------------------------------------ search
\* (dx + dy) - 0.5858 * min(dx, dy), in units of 1/10000.
Scale == 10000

_octile_heuristic(a, b) ==
  LET dx == Abs(a[1] - b[1])
      dy == Abs(a[2] - b[2])
  IN  Scale * (dx + dy) - 5858 * Min(dx, dy)

\* Bresenham walk from (x0, y0) to (x1, y1) over the blocking map wm:
\* the loop of _has_line_of_sight, one iteration per call.
RECURSIVE LineWalk(_, _, _, _, _, _, _, _, _, _)
LineWalk(x0, y0, x1, y1, dx, dy, sx, sy, err, wm) ==
  IF x0 = x1 /\ y0 = y1 THEN TRUE
  ELSE IF <<x0, y0>> \in wm THEN FALSE
  ELSE
    LET e2 == 2 * err
        stepx == e2 >= dy
        errA == IF stepx THEN err + dy ELSE err
        xA == IF stepx THEN x0 + sx ELSE x0
    IN  IF stepx /\ xA = x1 /\ y0 = y1 THEN TRUE
        ELSE
          LET stepy == e2 <= dx
              errB == IF stepy THEN errA + dx ELSE errA
              yB == IF stepy THEN y0 + sy ELSE y0
          IN  LineWalk(xA, yB, x1, y1, dx, dy, sx, sy, errB, wm)

\* _has_line_of_sight with the blocking test made on the start cell before
\* the loop, for equal endpoints too.
_has_line_of_sightStartFirst(start, end, wm) ==
  LET dx == Abs(end[1] - start[1])
      dy == -Abs(end[2] - start[2])
      sx == IF start[1] < end[1] THEN 1 ELSE -1
      sy == IF start[2] < end[2] THEN 1 ELSE -1
  IN  /\ start \notin wm
      /\ LineWalk(start[1], start[2], end[1], end[2], dx, dy, sx, sy, dx + dy, wm)

_has_line_of_sight(start, end, wm) ==
  LET dx == Abs(end[1] - start[1])
      dy == -Abs(end[2] - start[2])
      sx == IF start[1] < end[1] THEN 1 ELSE -1
      sy == IF start[2] < end[2] THEN 1 ELSE -1
  IN  LineWalk(start[1], start[2], end[1], end[2], dx, dy, sx, sy, dx + dy, wm)

\* The loop of _smooth_path not run: only the two ends are kept.
SmoothLoopEndsOnly(path, i, smoothed, last_valid, wm) ==
  Append(smoothed, path[Len(path)])

\* for i in range(1, len(path)-1), with path 1-indexed here: i = 2 .. Len-1
RECURSIVE SmoothLoop(_, _, _, _, _)
SmoothLoop(path, i, smoothed, last_valid, wm) ==
  IF i > Len(path) - 1 THEN Append(smoothed, path[Len(path)])
  ELSE IF ~_has_line_of_sight(last_valid, path[i + 1], wm)
    THEN SmoothLoop(path, i + 1, Append(smoothed, path[i]), path[i], wm)
    ELSE SmoothLoop(path, i + 1, smoothed, last_valid, wm)

\* _smooth_path with the test of line 120 passing every path that has a
\* cell.
_smooth_pathAnyLength(path, wm) ==
  IF Len(path) < 1 THEN path
  ELSE SmoothLoop(path, 2, <<path[1]>>, path[1], wm)

_smooth_path(path, wm) ==
  IF Len(path) < 3 THEN path
  ELSE SmoothLoop(path, 2, <<path[1]>>, path[1], wm)

\* The backwards walk of _reconstruct_path; acc is the reversed list so
\* far. Failed |-> TRUE is the `return []` on a missing predecessor.
RECURSIVE WalkBack(_, _, _, _)
WalkBack(came_from, start, current, acc) ==
  IF current = start THEN [failed |-> FALSE, path |-> acc]
  ELSE IF current \notin DOMAIN came_from THEN [failed |-> TRUE, path |-> NoPath]
  ELSE WalkBack(came_from, start, came_from[current], <<current>> \o acc)

_reconstruct_path(came_from, start, goal, wm) ==
  LET back == WalkBack(came_from, start, goal, << >>)
  IN  IF back.failed THEN NoPath ELSE _smooth_path(back.path, wm)

\* A frontier entry is the heap tuple (priority, id, node). id(neighbor) is
\* an address: it only orders entries of equal priority, in an order the
\* program does not control, so the model keeps 0 there and lets the pop
\* take any entry of least priority.
Entry(priority, node) == <<priority, 0, node>>

LeastEntries(frontier) ==
  { e \in frontier : \A f \in frontier : e[1] <= f[1] }

\* Line 84 had it taken the node of the popped triple.
UnpackPoppedNode(entry) == [raised |-> FALSE, current |-> entry[3]]

\* Line 84: `_, current = heapq.heappop(frontier)[1]`. Element [1] of the
\* popped triple is its second component, the integer id, and an integer
\* cannot be unpacked into two names: the statement raises TypeError.
UnpackPopped(entry) == [raised |-> TRUE, current |-> NoCell]

\* Extends a map with one binding (dict item assignment).
Put(map, k, v) == [x \in DOMAIN map \cup {k} |-> IF x = k THEN v ELSE map[x]]

\* The `for neighbor in ...` loop of one expansion (lines 90-96).
RECURSIVE Expand(_, _, _, _, _)
Expand(nbrs, i, current, goal, st) ==
  IF i > Len(nbrs) THEN st
  ELSE
    LET neighbor == nbrs[i]
        new_cost == st.cost_so_far[current] + 1
    IN  IF neighbor \notin DOMAIN st.cost_so_far \/ new_cost < st.cost_so_far[neighbor]
          THEN Expand(nbrs, i + 1, current, goal,
                 [st EXCEPT
                    !.cost_so_far = Put(@, neighbor, new_cost),
                    !.frontier = @ \cup
                       { Entry(Scale * new_cost + _octile_heuristic(goal, neighbor),
                               neighbor) },
                    !.came_from = Put(@, neighbor, current)])
          ELSE Expand(nbrs, i + 1, current, goal, st)

\* self.nav_mesh.get(current, [])
MeshGet(mesh, node) == IF node \in DOMAIN mesh THEN mesh[node] ELSE << >>

\* The state of one run of _optimized_a_star. pc: "begin" before line 73,
\* "loop" at the head of the while loop, "done" once it returned or raised.
\* History, for the properties: raw is the path before smoothing, on_mesh
\* and seen are what the run read from the mesh (the membership test of
\* line 73, and each adjacency list with its cell), tag is the number of
\* repairs completed when the run first read the mesh. cancelled: the
\* coroutine that awaited the run was cancelled.
NoSearch ==
  [pc |-> "idle", start |-> NoCell, goal |-> NoCell, frontier |-> {},
   came_from |-> EmptyMap, cost_so_far |-> EmptyMap,
   raised |-> FALSE, path |-> NoPath, raw |-> NoPath,
   on_mesh |-> FALSE, seen |-> {}, tag |-> 0, cancelled |-> FALSE]

Returned(st, raw, path) ==
  [st EXCEPT !.pc = "done", !.frontier = {},
             !.came_from = EmptyMap, !.cost_so_far = EmptyMap,
             !.raised = FALSE, !.path = path, !.raw = raw]

Raised(st) == [st EXCEPT !.pc = "done", !.frontier = {},
               !.came_from = EmptyMap, !.cost_so_far = EmptyMap,
               !.raised = TRUE, !.path = NoPath]

\* Lines 73-81 without the `start not in self.nav_mesh` test.
SearchEnterAnyStart(mesh, st) ==
  IF st.start = st.goal THEN Returned(st, NoPath, NoPath)
  ELSE [st EXCEPT !.pc = "loop",
                  !.on_mesh = st.start \in DOMAIN mesh,
                  !.frontier = { Entry(0, st.start) },
                  !.came_from = EmptyMap,
                  !.cost_so_far = Put(EmptyMap, st.start, 0)]

\* Lines 73-81.
SearchEnter(mesh, st) ==
  IF st.start = st.goal THEN Returned(st, NoPath, NoPath)
  ELSE IF st.start \notin DOMAIN mesh
    THEN Returned([st EXCEPT !.on_mesh = FALSE], NoPath, NoPath)
    ELSE [st EXCEPT !.pc = "loop",
                    !.on_mesh = TRUE,
                    !.frontier = { Entry(0, st.start) },
                    !.came_from = EmptyMap,
                    !.cost_so_far = Put(EmptyMap, st.start, 0)]

\* One iteration of the while loop (lines 83-98): the states it can leave
\* the search in, one per entry the pop may return.
SearchIteration(mesh, wm, st) ==
  IF st.frontier = {} THEN { Returned(st, NoPath, NoPath) }
  ELSE
    { LET u == UnpackPopped(e)
          nbrs == MeshGet(mesh, u.current)
          rest == [st EXCEPT !.frontier = @ \ {e},
                             !.seen = @ \cup { <<u.current, nbrs>> }]
      IN  IF u.raised THEN Raised(st)
          ELSE IF u.current = st.goal
            THEN Returned(st, WalkBack(st.came_from, st.start, st.goal, << >>).path,
                          _reconstruct_path(st.came_from, st.start, st.goal, wm))
            ELSE Expand(nbrs, 1, u.current, st.goal, rest)
      : e \in LeastEntries(st.frontier) }

\* --------------------------------------------------------------- the state
VARIABLES
  mini_map,        \* game.map.mini_map: the live occupancy grid (blocking cells)
  map_data,        \* self.map_data: the grid as last seen by the path finder
  walkable_nodes,  \* self.walkable_nodes
  nav_mesh,        \* self.nav_mesh: cell -> list of neighbours
  path_cache,      \* self.path_cache: (start, goal) -> path
  cache_hits,      \* self.cache_hits
  cache_misses,    \* self.cache_misses
  call,            \* the path requests in progress, and their searches
  upd,             \* the dynamic_obstacle_update coroutine and its repair
  queue,           \* the executor's work queue (FIFO)
  repairs_done,    \* history: runs of _partial_navmesh_update completed
  versions,        \* history: the mesh as built, then as each repair leaves it
  cache_tag,       \* history: per cache entry, repairs_done when its search read the mesh
  toggles,         \* history: changes of the grid so far
  calls_made,      \* history: requests issued so far
  updates_made,    \* history: dynamic_obstacle_update calls so far
  resp,            \* history: the last call completed and its answer
  probe            \* a direct call of a helper: its arguments and its result

vars ==
  << mini_map, map_data, walkable_nodes, nav_mesh, path_cache, cache_hits,
     cache_misses, call, upd, queue, repairs_done, versions, cache_tag,
     toggles, calls_made, updates_made, resp, probe >>

\* get_next_step runs on the loop thread (call 0); each find_path_async in
\* flight is a call 1 .. NumCallers; the repair is job -1 of the executor.
Sync == 0

Callers == DOMAIN call \ {Sync}

UpdJob == -1

\* game.map.world_map: the live blocking set, here the blocking cells of
\* the grid.
world_map == mini_map

\* The number of dynamic_obstacle_update calls that have returned.
Epoch == repairs_done - (IF upd.pc = "done" THEN 1 ELSE 0)

\* op and kind name the call and how it ended; hit: answered from the
\* cache; epoch: the updates returned when it was answered; tag: the
\* repairs completed when the search behind the answer read the mesh.
NoResp ==
  [op |-> "none", kind |-> "none",
   path |-> NoPath, cell |-> NoCell, hit |-> FALSE, epoch |-> 0, tag |-> 0]

\* changed: the nodes the repair has still to visit; cells (history): the
\* cells whose blocking flag differed when the repair compared the grids.
IdleUpd == [pc |-> "idle", changed |-> {}, cells |-> {}]

\* No helper has been called directly.
NoStats ==
  [cache_hits |-> 0, cache_misses |-> 0, cache_ratio |-> 0,
   navmesh_size |-> 0, walkable_nodes |-> 0]

NoProbe == [op |-> "none", a |-> NoCell, b |-> NoCell, path |-> NoPath,
            out |-> FALSE, h |-> 0, smoothed |-> NoPath, stats |-> NoStats]

\* The state __init__ leaves, for a grid of the given cells of which the
\* cells m are blocking, with n find_path_async coroutines at hand.
BootOn(cells, n, m) ==
  /\ mini_map = m
  /\ map_data = m
  /\ walkable_nodes = _precompute_walkable(cells, m)
  /\ nav_mesh = _build_nav_mesh(_precompute_walkable(cells, m))
  /\ versions = << _build_nav_mesh(_precompute_walkable(cells, m)) >>
  /\ path_cache = EmptyMap
  /\ cache_hits = 0
  /\ cache_misses = 0
  /\ call = [j \in {Sync} \cup (1 .. n) |-> NoSearch]
  /\ upd = IdleUpd
  /\ queue = << >>
  /\ repairs_done = 0
  /\ cache_tag = EmptyMap
  /\ toggles = 0
  /\ calls_made = 0
  /\ updates_made = 0
  /\ resp = NoResp

\* The W x H grid m, one find_path_async coroutine, no helper called.
Boot(m) == BootOn(GridCells, NumCallers, m) /\ probe = NoProbe

Init == \E m \in InitialMaps : Boot(m)

\* The loop thread held by every search: by get_next_step's own, and by
\* the searches of find_path_async as if they ran on it.
LoopFreeNoSearch == \A j \in DOMAIN call : call[j].pc \notin {"queued", "begin", "loop"}

\* The loop thread is not inside get_next_step's inline search. The await
\* of line 58 gives the thread back while a worker runs the search.
LoopFree == call[Sync].pc = "idle"

\* Jobs a worker thread is running, with the jobs still in the queue
\* counted as if each held a worker.
RunningOrQueued ==
  Cardinality({ j \in Callers : call[j].pc \in {"queued", "begin", "loop"} })
    + (IF upd.pc \in {"queued", "detect", "nodes"} THEN 1 ELSE 0)

\* Jobs a worker thread is running.
Running ==
  Cardinality({ j \in Callers : call[j].pc \in {"begin", "loop"} })
    + (IF upd.pc \in {"detect", "nodes"} THEN 1 ELSE 0)

\* Line 66 without its test: every result is stored.
ShouldStoreAny(path, goal) == TRUE

\* `if path and path[-1] == goal` (line 66)
ShouldStore(path, goal) == path # NoPath /\ path[Len(path)] = goal

\* `if path` (line 166)
ShouldStoreStep(path) == path # NoPath

\* Line 160 with its test never true.
SameCellNever(s, g) == FALSE

\* `if start == goal` (line 160)
SameCell(s, g) == s = g

\* Line 168 answering with the far end of the path, or with the cell two
\* columns on when there is no path.
FirstStepFar(path, start) ==
  IF path # NoPath THEN path[Len(path)] ELSE <<start[1] + 2, start[2]>>

\* `return path[0] if path else start` (line 168)
FirstStep(path, start) == IF path # NoPath THEN path[1] ELSE start

\* A counter left as it was.
IncrementedNot(n) == n

\* `+= 1` on a counter (lines 54 and 57)
Incremented(n) == n + 1

\* self.path_cache.get(key, [])
CacheGet(cache, key) == IF key \in DOMAIN cache THEN cache[key] ELSE NoPath

\* ----------------------------------------------------- find_path_async
\* Lines 50-63 on the loop thread: a hit answers at once, a miss counts
\* and hands the search to the executor.
FindPathCall(j, s, g) ==
  /\ LoopFree
  /\ call[j].pc = "idle"
  /\ calls_made < MaxCalls
  /\ calls_made' = calls_made + 1
  /\ IF <<s, g>> \in DOMAIN path_cache
       THEN /\ cache_hits' = Incremented(cache_hits)
            /\ resp' = [NoResp EXCEPT !.op = "find", !.kind = "path", !.path = path_cache[<<s, g>>],
                          !.hit = TRUE, !.epoch = Epoch,
                          !.tag = cache_tag[<<s, g>>]]
            /\ UNCHANGED << cache_misses, call, queue >>
       ELSE /\ cache_misses' = Incremented(cache_misses)
            /\ call' = [call EXCEPT ![j] =
                          [NoSearch EXCEPT !.pc = "queued", !.start = s,
                                           !.goal = g]]
            /\ queue' = Append(queue, j)
            /\ UNCHANGED << cache_hits, resp >>
  /\ UNCHANGED << probe, mini_map, map_data, walkable_nodes, nav_mesh, path_cache,
                  upd, repairs_done, versions, cache_tag, toggles,
                  updates_made >>

\* Lines 65-69 on the loop thread, once the worker's future is done: an
\* exception of the search propagates out of the await.
FindPathResume(j) ==
  /\ LoopFree
  /\ j \in Callers
  /\ call[j].pc = "done"
  /\ ~call[j].cancelled
  /\ LET c == call[j]
         key == <<c.start, c.goal>>
     IN  /\ IF ~c.raised /\ ShouldStore(c.path, c.goal)
              THEN /\ path_cache' = Put(path_cache, key, c.path)
                   /\ cache_tag' = Put(cache_tag, key, c.tag)
              ELSE UNCHANGED << path_cache, cache_tag >>
         /\ resp' = [NoResp EXCEPT !.op = "find",
                       !.kind = IF c.raised THEN "raise" ELSE "path",
                       !.path = c.path, !.epoch = Epoch, !.tag = c.tag]
  /\ call' = [call EXCEPT ![j] = NoSearch]
  /\ UNCHANGED << probe, mini_map, map_data, walkable_nodes, nav_mesh, cache_hits,
                  cache_misses, upd, queue, repairs_done, versions, toggles,
                  calls_made, updates_made >>

\* ------------------------------------------------------------ the executor
\* A free worker takes the oldest job of the queue.
ExecutorStart ==
  /\ queue # << >>
  /\ Running < max_workers
  /\ queue' = Tail(queue)
  /\ IF Head(queue) = UpdJob
       THEN /\ upd' = [upd EXCEPT !.pc = "detect"]
            /\ UNCHANGED call
       ELSE /\ call' = [call EXCEPT ![Head(queue)].pc = "begin"]
            /\ UNCHANGED upd
  /\ UNCHANGED << probe, mini_map, map_data, walkable_nodes, nav_mesh, path_cache,
                  cache_hits, cache_misses, repairs_done, versions,
                  cache_tag, toggles, calls_made, updates_made, resp >>

\* ------------------------------------------------------- _optimized_a_star
\* Lines 73-81, by a worker (j in Callers) or inline by the loop (Sync).
SearchBegin(j) ==
  /\ call[j].pc = "begin"
  /\ call' = [call EXCEPT ![j] =
                SearchEnter(nav_mesh, [call[j] EXCEPT !.tag = repairs_done])]
  /\ UNCHANGED << probe, mini_map, map_data, walkable_nodes, nav_mesh, path_cache,
                  cache_hits, cache_misses, upd, queue, repairs_done,
                  versions, cache_tag, toggles, calls_made, updates_made,
                  resp >>

\* One iteration of the while loop.
SearchStep(j) ==
  /\ call[j].pc = "loop"
  /\ \E next \in SearchIteration(nav_mesh, world_map, call[j]) :
       call' = [call EXCEPT ![j] = next]
  /\ UNCHANGED << probe, mini_map, map_data, walkable_nodes, nav_mesh, path_cache,
                  cache_hits, cache_misses, upd, queue, repairs_done,
                  versions, cache_tag, toggles, calls_made, updates_made,
                  resp >>

\* ----------------------------------------------------------- get_next_step
\* Lines 160-165 on the loop thread: the start == goal answer, the cached
\* answer, or the inline search, which keeps the loop thread until it ends.
GetNextStep(s, g) ==
  /\ LoopFree
  /\ calls_made < MaxCalls
  /\ calls_made' = calls_made + 1
  /\ LET path == CacheGet(path_cache, <<s, g>>)
     IN  IF SameCell(s, g)
           THEN /\ resp' = [NoResp EXCEPT !.op = "step",
                              !.kind = "cell", !.cell = s]
                /\ UNCHANGED call
         ELSE IF path # NoPath
           THEN /\ resp' = [NoResp EXCEPT !.op = "step",
                              !.kind = "cell", !.path = path,
                              !.cell = FirstStep(path, s),
                              !.hit = TRUE, !.epoch = Epoch,
                              !.tag = cache_tag[<<s, g>>]]
                /\ UNCHANGED call
           ELSE /\ call' = [call EXCEPT ![Sync] =
                              [NoSearch EXCEPT !.pc = "begin", !.start = s,
                                               !.goal = g]]
                /\ UNCHANGED resp
  /\ UNCHANGED << probe, mini_map, map_data, walkable_nodes, nav_mesh, path_cache,
                  cache_hits, cache_misses, upd, queue, repairs_done,
                  versions, cache_tag, toggles, updates_made >>

\* Lines 166-168, after the inline search: an exception of the search
\* leaves get_next_step.
GetNextStepFinish ==
  /\ call[Sync].pc = "done"
  /\ LET c == call[Sync]
         key == <<c.start, c.goal>>
     IN  /\ IF ~c.raised /\ ShouldStoreStep(c.path)
              THEN /\ path_cache' = Put(path_cache, key, c.path)
                   /\ cache_tag' = Put(cache_tag, key, c.tag)
              ELSE UNCHANGED << path_cache, cache_tag >>
         /\ resp' = [NoResp EXCEPT !.op = "step",
                       !.kind = IF c.raised THEN "raise" ELSE "cell",
                       !.path = c.path,
                       !.cell = IF c.raised THEN NoCell
                                ELSE FirstStep(c.path, c.start),
                       !.epoch = Epoch, !.tag = c.tag]
  /\ call' = [call EXCEPT ![Sync] = NoSearch]
  /\ UNCHANGED << probe, mini_map, map_data, walkable_nodes, nav_mesh, cache_hits,
                  cache_misses, upd, queue, repairs_done, versions, toggles,
                  calls_made, updates_made >>

\* ------------------------------------------------- dynamic_obstacle_update
\* self.game.object_handler.has_dynamic_obstacles: ObjectHandler sets no
\* such attribute, so reading it raises AttributeError.
has_dynamic_obstacles == "AttributeError"

\* `if force or self.game.object_handler.has_dynamic_obstacles` (line 172):
\* `or` reads the attribute only when force is false.
UpdateGuard(force) ==
  IF force THEN "run"
  ELSE IF has_dynamic_obstacles = "AttributeError" THEN "raise"
  ELSE IF has_dynamic_obstacles = "True" THEN "run"
  ELSE "skip"

\* Lines 172-176 on the loop thread.
UpdateCall(force) ==
  /\ LoopFree
  /\ upd.pc = "idle"
  /\ updates_made < MaxUpdates
  /\ updates_made' = updates_made + 1
  /\ IF UpdateGuard(force) = "run"
       THEN /\ upd' = [upd EXCEPT !.pc = "queued"]
            /\ queue' = Append(queue, UpdJob)
            /\ UNCHANGED resp
       ELSE /\ resp' = [NoResp EXCEPT !.op = "update",
                          !.kind = IF UpdateGuard(force) = "raise"
                                     THEN "raise" ELSE "skipped"]
            /\ UNCHANGED << upd, queue >>
  /\ UNCHANGED << probe, mini_map, map_data, walkable_nodes, nav_mesh, path_cache,
                  cache_hits, cache_misses, call, repairs_done, versions,
                  cache_tag, toggles, calls_made >>

\* _partial_navmesh_update on a worker, line 181: _detect_changes.
RepairDetect ==
  /\ upd.pc = "detect"
  /\ LET changed == _detect_changes(map_data, mini_map)
     IN  /\ upd' = [pc |-> IF changed = {} THEN "done" ELSE "nodes",
                    changed |-> changed,
                    cells |-> (map_data \ mini_map) \cup (mini_map \ map_data)]
         /\ repairs_done' = IF changed = {} THEN repairs_done + 1 ELSE repairs_done
         /\ versions' = Append(versions, FinalMesh(nav_mesh, changed, walkable_nodes))
  /\ map_data' = mini_map
  /\ UNCHANGED << probe, mini_map, walkable_nodes, nav_mesh, path_cache, cache_hits,
                  cache_misses, call, queue, cache_tag, toggles, calls_made,
                  updates_made, resp >>

\* One iteration of `for node in changed_nodes` (lines 182-188); a set is
\* iterated in no particular order.
RepairNode ==
  /\ upd.pc = "nodes"
  /\ \E node \in upd.changed :
       /\ nav_mesh' = RepairedMesh(nav_mesh, node, walkable_nodes)
       /\ upd' = [pc |-> IF upd.changed = {node} THEN "done" ELSE "nodes",
                  changed |-> upd.changed \ {node},
                  cells |-> upd.cells]
       /\ repairs_done' = IF upd.changed = {node} THEN repairs_done + 1
                          ELSE repairs_done
  /\ UNCHANGED << probe, mini_map, map_data, walkable_nodes, path_cache, cache_hits,
                  cache_misses, call, queue, versions, cache_tag, toggles,
                  calls_made, updates_made, resp >>

\* Line 177 on the loop thread, once the repair's future is done.
UpdateResume ==
  /\ LoopFree
  /\ upd.pc = "done"
  /\ path_cache' = EmptyMap
  /\ cache_tag' = EmptyMap
  /\ upd' = IdleUpd
  /\ resp' = [NoResp EXCEPT !.op = "update", !.kind = "ok"]
  /\ UNCHANGED << probe, mini_map, map_data, walkable_nodes, nav_mesh, cache_hits,
                  cache_misses, call, queue, repairs_done, versions, toggles,
                  calls_made, updates_made >>

\* ---------------------------------------------------------- the environment
\* The game blocks or frees a cell of the grid (a dynamic obstacle).
ToggleCell(c) ==
  /\ toggles < MaxToggles
  /\ toggles' = toggles + 1
  /\ mini_map' = IF c \in mini_map THEN mini_map \ {c} ELSE mini_map \cup {c}
  /\ UNCHANGED << probe, map_data, walkable_nodes, nav_mesh, path_cache, cache_hits,
                  cache_misses, call, upd, queue, repairs_done, versions,
                  cache_tag, calls_made, updates_made, resp >>

Next ==
  \/ \E j \in Callers, s \in InputCells, g \in InputCells : FindPathCall(j, s, g)
  \/ \E j \in Callers : FindPathResume(j)
  \/ ExecutorStart
  \/ \E j \in {Sync} \cup Callers : SearchBegin(j)
  \/ \E j \in {Sync} \cup Callers : SearchStep(j)
  \/ \E s \in InputCells, g \in InputCells : GetNextStep(s, g)
  \/ GetNextStepFinish
  \/ \E force \in BOOLEAN : UpdateCall(force)
  \/ RepairDetect
  \/ RepairNode
  \/ UpdateResume
  \/ \E c \in DynamicCells : ToggleCell(c)

Spec == Init /\ [][Next]_vars

\* ------------------------------------------------------------- properties
AllCalls == {Sync} \cup Callers

Range(seq) == { seq[i] : i \in 1 .. Len(seq) }

\* Reference: breadth-first search on the mesh, every edge of cost 1.
\* The number of steps of a shortest walk from `level` to goal, -1 if none.
RECURSIVE BfsCost(_, _, _, _, _)
BfsCost(mesh, level, visited, goal, d) ==
  IF goal \in level THEN d
  ELSE LET next == UNION { Range(MeshGet(mesh, c)) : c \in level } \ visited
       IN  IF next = {} THEN -1
           ELSE BfsCost(mesh, next, visited \cup next, goal, d + 1)

ShortestCost(mesh, start, goal) == BfsCost(mesh, {start}, {start}, goal, 0)

\* The mesh is still the one __init__ built.
MeshAsBuilt == nav_mesh = versions[1]

\* C1: on a fixed mesh, for every start on the mesh and every goal
\* reachable from it, the search returns a path whose raw cost (its number
\* of unit steps, before smoothing) is the cost of a shortest path found
\* by breadth-first search.
C1_SearchCostIsShortest ==
  \A j \in AllCalls :
    ( /\ call[j].pc = "done"
      /\ MeshAsBuilt
      /\ call[j].start \in DOMAIN nav_mesh
      /\ ShortestCost(nav_mesh, call[j].start, call[j].goal) >= 0 )
    => ( /\ ~call[j].raised
         /\ Len(call[j].raw) = ShortestCost(nav_mesh, call[j].start, call[j].goal) )

\* C8: for a start on the mesh and a goal that is blocked or unreachable,
\* the search ends with the empty path as a normal value and does not
\* raise.
C8_UnreachableReturnsEmpty ==
  \A j \in AllCalls :
    ( /\ call[j].pc = "done"
      /\ MeshAsBuilt
      /\ call[j].start \in DOMAIN nav_mesh
      /\ ShortestCost(nav_mesh, call[j].start, call[j].goal) = -1 )
    => ( ~call[j].raised /\ call[j].path = NoPath )

\* C9: a search whose start is not a key of the mesh returns the empty
\* path at once, without raising, and leaves the mesh and the cache as
\* they were.
C9_OffMeshStartReturnsEmpty ==
  [][ \A j \in AllCalls :
        ( /\ call[j].pc = "begin"
          /\ call'[j].pc # "begin"
          /\ call[j].start \notin DOMAIN nav_mesh )
        => ( /\ call'[j].pc = "done"
             /\ ~call'[j].raised
             /\ call'[j].path = NoPath
             /\ nav_mesh' = nav_mesh
             /\ path_cache' = path_cache ) ]_vars

\* A search from a start off the mesh, other than the goal, has returned.
C9_Witness ==
  \E j \in AllCalls :
    /\ call[j].pc = "done"
    /\ call[j].start # call[j].goal
    /\ call[j].start \notin DOMAIN nav_mesh
    /\ ~call[j].raised
    /\ call[j].path = NoPath

\* C10: a request whose start or goal lies outside the grid ends in an
\* error: the step that delivers its answer delivers a raised exception,
\* never the `no path` answer.
C10_OutOfRangeIsError ==
  [][ \A j \in AllCalls :
        ( /\ call[j].pc = "done"
          /\ call'[j].pc = "idle"
          /\ (call[j].start \notin GridCells \/ call[j].goal \notin GridCells) )
        => resp'.kind = "raise" ]_vars

ReadsAgree(v, st) ==
  /\ st.on_mesh = (st.start \in DOMAIN v)
  /\ \A r \in st.seen : MeshGet(v, r[1]) = r[2]

C5_UpdateRepairsAndClears ==
  [][ /\ (updates_made' # updates_made /\ mini_map # map_data)
         => upd'.pc = "queued"
      /\ (upd.pc = "done" /\ upd'.pc = "idle")
         => path_cache' = EmptyMap ]_vars

\* C7: every cache entry (start, goal) holds a non-empty path that ends at
\* goal.
C7_CacheEntriesReachGoal ==
  \A key \in DOMAIN path_cache :
    /\ path_cache[key] # NoPath
    /\ path_cache[key][Len(path_cache[key])] = key[2]

\* find_path_async has returned the empty result of a search, and the
\* cache holds nothing.
C7_Witness ==
  /\ resp.op = "find"
  /\ resp.kind = "path"
  /\ ~resp.hit
  /\ resp.path = NoPath
  /\ path_cache = EmptyMap

\* ------------------------------------------------------------ one scenario
\* The open grid, one agent asking for the way from one corner to the
\* opposite one, and a dynamic obstacle on the cell in between.
ScenarioStart == <<0, 0>>

ScenarioGoal == <<2, 1>>

ScenarioCell == <<1, 1>>

InitScenario == Boot({})

NextScenario ==
  \/ \E j \in Callers : FindPathCall(j, ScenarioStart, ScenarioGoal)
  \/ \E j \in Callers : FindPathResume(j)
  \/ ExecutorStart
  \/ \E j \in AllCalls : SearchBegin(j)
  \/ \E j \in AllCalls : SearchStep(j)
  \/ GetNextStep(ScenarioStart, ScenarioGoal)
  \/ GetNextStepFinish
  \/ \E force \in BOOLEAN : UpdateCall(force)
  \/ RepairDetect
  \/ RepairNode
  \/ UpdateResume
  \/ ToggleCell(ScenarioCell)

SpecScenario == InitScenario /\ [][NextScenario]_vars

C6_FreshPathAvoidsBlockedCell ==
  \A j \in AllCalls :
    ( /\ call[j].pc = "done"
      /\ call[j].tag >= 1
      /\ calls_made >= 2
      /\ upd.pc = "idle"
      /\ ScenarioCell \in map_data )
    => ( /\ ~call[j].raised
         /\ call[j].path # NoPath
         /\ ScenarioCell \notin Range(call[j].raw)
         /\ ScenarioCell \notin Range(call[j].path) )

\* ------------------------------------------------- the helpers on their own
\* _has_line_of_sight, _smooth_path and _octile_heuristic called directly,
\* as a test calls them, on a path finder built for a small grid.
ProbeW == 3

ProbeH == 3

MaxBlocked == 2

MaxLen == 4

ProbeCells == (0 .. ProbeW - 1) \X (0 .. ProbeH - 1)

ProbeMaps == { m \in SUBSET ProbeCells : Cardinality(m) <= MaxBlocked }

ProbePaths == UNION { [1 .. n -> ProbeCells] : n \in 0 .. MaxLen }

\* The arguments a test has at hand: two cells, or a path.
ProbeInputs ==
  { [NoProbe EXCEPT !.op = "cells", !.a = a, !.b = b] :
      a \in ProbeCells, b \in ProbeCells }
  \cup { [NoProbe EXCEPT !.op = "path", !.path = path] : path \in ProbePaths }

InitProbe ==
  \E m \in ProbeMaps :
    BootOn(ProbeCells, NumCallers, m) /\ probe \in ProbeInputs

ProbeRest ==
  << mini_map, map_data, walkable_nodes, nav_mesh, path_cache, cache_hits,
     cache_misses, call, upd, queue, repairs_done, versions, cache_tag,
     toggles, calls_made, updates_made, resp >>

\* self._has_line_of_sight(a, b)
VisibleCall ==
  /\ probe.op = "cells"
  /\ probe' = [probe EXCEPT !.op = "visible",
                 !.out = _has_line_of_sight(probe.a, probe.b, world_map)]
  /\ UNCHANGED ProbeRest

\* self._smooth_path(path)
SmoothCall ==
  /\ probe.op = "path"
  /\ probe' = [probe EXCEPT !.op = "smooth",
                 !.smoothed = _smooth_path(probe.path, world_map)]
  /\ UNCHANGED ProbeRest

\* self._octile_heuristic(a, b)
HeuristicCall ==
  /\ probe.op = "cells"
  /\ probe' = [probe EXCEPT !.op = "heuristic",
                 !.h = _octile_heuristic(probe.a, probe.b)]
  /\ UNCHANGED ProbeRest

NextProbe == VisibleCall \/ SmoothCall \/ HeuristicCall

SpecProbe == InitProbe /\ [][NextProbe]_vars

\* C11: line of sight is symmetric: the answer for (a, b) is the answer
\* the same map gives for (b, a).
C11_SightIsSymmetric ==
  probe.op = "visible"
    => probe.out = _has_line_of_sight(probe.b, probe.a, world_map)

\* A blocked cell has been asked for its line of sight to a free
\* neighbour, which the reversed call sees.
C11_Witness ==
  /\ probe.op = "visible"
  /\ probe.a # probe.b
  /\ ~probe.out
  /\ _has_line_of_sight(probe.b, probe.a, world_map)

\* C12: a cell has line of sight to itself, whatever the blocking map.
C12_SightToSelf ==
  (probe.op = "visible" /\ probe.a = probe.b) => probe.out

\* A blocked cell has been asked for its line of sight to itself.
C12_Witness ==
  /\ probe.op = "visible"
  /\ probe.a = probe.b
  /\ probe.a \in world_map
  /\ probe.out

\* sub is what is left of seq after striking out some of its elements.
RECURSIVE IsSelection(_, _)
IsSelection(sub, seq) ==
  IF sub = << >> THEN TRUE
  ELSE IF seq = << >> THEN FALSE
  ELSE IF Head(sub) = Head(seq)
    THEN IsSelection(Tail(sub), Tail(seq)) \/ IsSelection(sub, Tail(seq))
    ELSE IsSelection(sub, Tail(seq))

\* C13: the smoothed path is no longer than the path given, is a
\* selection of its cells in their order, and begins and ends with the
\* cells the path given begins and ends with.
C13_SmoothKeepsEnds ==
  probe.op = "smooth"
    => /\ Len(probe.smoothed) <= Len(probe.path)
       /\ IsSelection(probe.smoothed, probe.path)
       /\ probe.path # NoPath
            => /\ probe.smoothed # NoPath
               /\ probe.smoothed[1] = probe.path[1]
               /\ probe.smoothed[Len(probe.smoothed)] = probe.path[Len(probe.path)]

\* A path of four cells has been smoothed to fewer, more than two.
C13_Witness ==
  /\ probe.op = "smooth"
  /\ Len(probe.path) = 4
  /\ Len(probe.smoothed) = 3

\* A path as the search makes it: every cell free, each next to the one
\* before it.
IsWalk(path, wm) ==
  /\ \A i \in 1 .. Len(path) : path[i] \notin wm
  /\ \A i \in 1 .. Len(path) - 1 :
       /\ path[i] # path[i + 1]
       /\ Abs(path[i][1] - path[i + 1][1]) <= 1
       /\ Abs(path[i][2] - path[i + 1][2]) <= 1

\* C14: in the smoothed form of a path as the search makes it, each
\* waypoint has line of sight to the next.
C14_SmoothedPairsVisible ==
  (probe.op = "smooth" /\ IsWalk(probe.path, world_map))
    => \A i \in 1 .. Len(probe.smoothed) - 1 :
         _has_line_of_sight(probe.smoothed[i], probe.smoothed[i + 1], world_map)

\* A walk whose ends do not see each other has been smoothed, and a cell
\* in between was kept.
C14_Witness ==
  /\ probe.op = "smooth"
  /\ IsWalk(probe.path, world_map)
  /\ Len(probe.path) = 4
  /\ Len(probe.smoothed) = 3
  /\ ~_has_line_of_sight(probe.path[1], probe.path[4], world_map)

Max(a, b) == IF a < b THEN b ELSE a

\* C16: the heuristic never exceeds the number of unit steps between the
\* two cells on the open grid, max(dx, dy).
C16_HeuristicAdmissible ==
  probe.op = "heuristic"
    => probe.h <= Scale * Max(Abs(probe.a[1] - probe.b[1]),
                              Abs(probe.a[2] - probe.b[2]))

\* -------------------------------------------------------------- scenario A
\* The fully open grid of five by five cells and one agent asking for the
\* way from one corner to the opposite one; a dynamic obstacle may appear
\* on the middle cell.
ScenarioAGrid == (0 .. 4) \X (0 .. 4)

ScenarioAStart == <<0, 0>>

ScenarioAGoal == <<4, 4>>

ScenarioACell == <<2, 2>>

InitScenarioA == BootOn(ScenarioAGrid, NumCallers, {}) /\ probe = NoProbe

NextScenarioA ==
  \/ \E j \in Callers : FindPathCall(j, ScenarioAStart, ScenarioAGoal)
  \/ \E j \in Callers : FindPathResume(j)
  \/ ExecutorStart
  \/ \E j \in AllCalls : SearchBegin(j)
  \/ \E j \in AllCalls : SearchStep(j)
  \/ GetNextStep(ScenarioAStart, ScenarioAGoal)
  \/ GetNextStepFinish
  \/ \E force \in BOOLEAN : UpdateCall(force)
  \/ RepairDetect
  \/ RepairNode
  \/ UpdateResume
  \/ ToggleCell(ScenarioACell)

SpecScenarioA == InitScenarioA /\ [][NextScenarioA]_vars

\* C15: on the open five by five grid the search from (0,0) to (4,4)
\* returns: its raw path has 4 steps, and the path it returns, smoothed,
\* is the two waypoints (0,0), (4,4).
C15_ScenarioADiagonal ==
  \A j \in AllCalls :
    ( /\ call[j].pc = "done"
      /\ toggles = 0
      /\ MeshAsBuilt )
    => ( /\ ~call[j].raised
         /\ Len(call[j].raw) = 4
         /\ call[j].path = << ScenarioAStart, ScenarioAGoal >> )

\* ------------------------------------------------------ runs side by side
\* C17: two runs of the search for the same start and goal on the mesh as
\* built, the goal reachable, both return a path, and the two paths have
\* the same raw cost, whichever entries of equal priority the pops took.
C17_RunsAgreeOnCost ==
  \A i \in AllCalls, j \in AllCalls :
    ( /\ i # j
      /\ call[i].pc = "done"
      /\ call[j].pc = "done"
      /\ call[i].start = call[j].start
      /\ call[i].goal = call[j].goal
      /\ MeshAsBuilt
      /\ call[i].start \in DOMAIN nav_mesh
      /\ ShortestCost(nav_mesh, call[i].start, call[i].goal) >= 1 )
    => ( /\ ~call[i].raised
         /\ ~call[j].raised
         /\ Len(call[i].raw) = Len(call[j].raw) )

NumFairCallers == 2

InitFair == BootOn(GridCells, NumFairCallers, {}) /\ probe = NoProbe

NextFair ==
  \/ \E j \in Callers : FindPathCall(j, ScenarioStart, ScenarioGoal)
  \/ \E j \in Callers : FindPathResume(j)
  \/ ExecutorStart
  \/ \E j \in AllCalls : SearchBegin(j)
  \/ \E j \in AllCalls : SearchStep(j)
  \/ GetNextStep(ScenarioStart, ScenarioGoal)
  \/ GetNextStepFinish
  \/ \E force \in BOOLEAN : UpdateCall(force)
  \/ RepairDetect
  \/ RepairNode
  \/ UpdateResume
  \/ ToggleCell(ScenarioCell)

Fairness ==
  /\ WF_vars(ExecutorStart)
  /\ \A j \in 0 .. NumFairCallers :
       WF_vars(SearchBegin(j)) /\ WF_vars(SearchStep(j))
  /\ \A j \in 1 .. NumFairCallers : WF_vars(FindPathResume(j))
  /\ WF_vars(GetNextStepFinish)
  /\ WF_vars(RepairDetect)
  /\ WF_vars(RepairNode)
  /\ WF_vars(UpdateResume)

SpecFair == InitFair /\ [][NextFair]_vars /\ Fairness

\* C19: every find_path_async call that handed its search to the executor
\* is resumed in the end, with the path, the empty path or the exception
\* of the search.
C19_EveryCallResolves ==
  \A j \in 1 .. NumFairCallers :
    (call[j].pc = "queued") ~> (call[j].pc = "idle")

\* Both workers are busy and a third job waits in the queue.
C19_Witness ==
  /\ Running = max_workers
  /\ queue # << >>

\* ------------------------------------------------------------ no way through
\* C20: when the mesh as built has no way from start to goal (start off
\* the mesh, goal blocked or out of reach), get_next_step ends by
\* returning start, without raising, and leaves the cache as it was.
C20_NoPathStaysPut ==
  [][ ( /\ call[Sync].pc = "done"
        /\ call'[Sync].pc = "idle"
        /\ MeshAsBuilt
        /\ \/ call[Sync].start \notin DOMAIN nav_mesh
           \/ ShortestCost(nav_mesh, call[Sync].start, call[Sync].goal) = -1 )
      => ( /\ resp'.kind = "cell"
           /\ resp'.cell = call[Sync].start
           /\ path_cache' = path_cache ) ]_vars

\* ------------------------------------------------------------ diagnostics
\* hits / (hits + misses) if the sum is positive, else 0, in units of
\* 1/10000, rounded down; with the share of the misses instead.
cache_ratioOfMisses(hits, misses) ==
  IF hits + misses > 0 THEN (misses * Scale) \div (hits + misses) ELSE 0

\* Line 203: hits / (hits + misses) if the sum is positive, else 0, in
\* units of 1/10000, rounded down.
cache_ratio(hits, misses) ==
  IF hits + misses > 0 THEN (hits * Scale) \div (hits + misses) ELSE 0

\* get_performance_stats: callable in any state, from any thread.
get_performance_stats ==
  /\ probe' = [NoProbe EXCEPT !.op = "stats", !.stats =
                 [cache_hits |-> cache_hits,
                  cache_misses |-> cache_misses,
                  cache_ratio |-> cache_ratio(cache_hits, cache_misses),
                  navmesh_size |-> Cardinality(DOMAIN nav_mesh),
                  walkable_nodes |-> Cardinality(walkable_nodes)]]
  /\ UNCHANGED ProbeRest

\* The scenario of the one agent and the one dynamic obstacle, with the
\* diagnostics read at any moment.
NextStats == NextScenario \/ get_performance_stats

SpecStats == InitScenario /\ [][NextStats]_vars

\* C21: a diagnostics call changes nothing of the path finder (mesh,
\* walkable set, cache, counters), it returns (the model has no raising
\* outcome for it), and the ratio it reports is hits / (hits + misses),
\* rounded down to 1/10000: 0 when nothing was counted, and between 0
\* and 1.
C21_StatsReadOnly ==
  [][ probe'.op = "stats" /\ probe' # probe
        => LET st == probe'.stats
               total == cache_hits + cache_misses
           IN  /\ nav_mesh' = nav_mesh
               /\ walkable_nodes' = walkable_nodes
               /\ path_cache' = path_cache
               /\ cache_hits' = cache_hits
               /\ cache_misses' = cache_misses
               /\ st.cache_hits = cache_hits
               /\ st.cache_misses = cache_misses
               /\ total = 0 => st.cache_ratio = 0
               /\ st.cache_ratio * total <= cache_hits * Scale
               /\ cache_hits * Scale < (st.cache_ratio + 1) * total \/ total = 0
               /\ st.cache_ratio >= 0
               /\ st.cache_ratio <= Scale ]_vars

\* The diagnostics were read after a lookup had been counted.
C21_Witness ==
  /\ probe.op = "stats"
  /\ probe.stats.cache_hits + probe.stats.cache_misses > 0

\* ------------------------------------------------------------ construction
\* GamePathFinder(game) for every occupancy grid of the small square grid.
BuildMaps == SUBSET ProbeCells

\* Before __init__: the game's grid is there, the path finder is not.
InitBuild ==
  /\ mini_map \in BuildMaps
  /\ map_data = {}
  /\ walkable_nodes = {}
  /\ nav_mesh = EmptyMap
  /\ versions = << >>
  /\ path_cache = EmptyMap
  /\ cache_hits = 0
  /\ cache_misses = 0
  /\ call = [j \in {Sync} \cup (1 .. NumCallers) |-> NoSearch]
  /\ upd = IdleUpd
  /\ queue = << >>
  /\ repairs_done = 0
  /\ cache_tag = EmptyMap
  /\ toggles = 0
  /\ calls_made = 0
  /\ updates_made = 0
  /\ resp = NoResp
  /\ probe = [NoProbe EXCEPT !.op = "new"]

\* __init__ (lines 9-26).
Construct ==
  /\ probe.op = "new"
  /\ map_data' = mini_map
  /\ walkable_nodes' = _precompute_walkable(ProbeCells, mini_map)
  /\ nav_mesh' = _build_nav_mesh(_precompute_walkable(ProbeCells, mini_map))
  /\ versions' = << _build_nav_mesh(_precompute_walkable(ProbeCells, mini_map)) >>
  /\ path_cache' = EmptyMap
  /\ cache_hits' = 0
  /\ cache_misses' = 0
  /\ probe' = [NoProbe EXCEPT !.op = "built"]
  /\ UNCHANGED << mini_map, call, upd, queue, repairs_done, cache_tag,
                  toggles, calls_made, updates_made, resp >>

NextBuild == Construct \/ (probe.op = "built" /\ get_performance_stats)

SpecBuild == InitBuild /\ [][NextBuild]_vars

\* The cells of the grid around c, c not among them.
Around(c, cells) ==
  { d \in cells : /\ d # c
                  /\ Abs(d[1] - c[1]) <= 1
                  /\ Abs(d[2] - c[2]) <= 1 }

\* C22: once built, the mesh lists for every free cell exactly its free
\* neighbours among the eight cells around it, each once; no blocking cell
\* and no cell outside the grid is a key; and the grid with every cell
\* blocking gives the empty mesh.
C22_MeshAsSpecified ==
  probe.op \in {"built", "stats"}
    => /\ \A c \in ProbeCells \ mini_map :
            /\ Range(MeshGet(nav_mesh, c)) = Around(c, ProbeCells \ mini_map)
            /\ Len(MeshGet(nav_mesh, c)) = Cardinality(Around(c, ProbeCells \ mini_map))
       /\ DOMAIN nav_mesh \subseteq ProbeCells \ mini_map
       /\ mini_map = ProbeCells => nav_mesh = EmptyMap

\* The path finder was built for the grid with every cell blocking.
C22_Witness ==
  /\ probe.op = "built"
  /\ mini_map = ProbeCells
  /\ nav_mesh = EmptyMap

\* ------------------------------------------------------------- the repair
\* The small square grid, obstacles appearing and going anywhere on it,
\* and dynamic_obstacle_update; no path is asked for.
InitRepair ==
  \E m \in ProbeMaps : BootOn(ProbeCells, NumCallers, m) /\ probe = NoProbe

NextRepair ==
  \/ \E c \in ProbeCells : ToggleCell(c)
  \/ \E force \in BOOLEAN : UpdateCall(force)
  \/ ExecutorStart
  \/ RepairDetect
  \/ RepairNode
  \/ UpdateResume

SpecRepair == InitRepair /\ [][NextRepair]_vars

\* Two meshes have the same keys and give every key the same set of
\* neighbours.
SameMesh(m1, m2) ==
  /\ DOMAIN m1 = DOMAIN m2
  /\ \A c \in DOMAIN m1 : Range(m1[c]) = Range(m2[c])

\* C23: when a repair is complete, the walkable set and the mesh are what
\* _precompute_walkable and _build_nav_mesh make of the grid the repair
\* read.
C23_RepairEqualsRebuild ==
  upd.pc = "done"
    => /\ walkable_nodes = _precompute_walkable(ProbeCells, map_data)
       /\ SameMesh(nav_mesh,
                   _build_nav_mesh(_precompute_walkable(ProbeCells, map_data)))

\* C24: a step of the repair changes the adjacency list only of a cell
\* whose blocking flag changed or of a cell next to one.
C24_RepairIsLocal ==
  [][ \A c \in DOMAIN nav_mesh \cup DOMAIN nav_mesh' :
        MeshGet(nav_mesh', c) # MeshGet(nav_mesh, c)
          => \E d \in upd.cells : c = d \/ c \in Around(d, ProbeCells) ]_vars

\* -------------------------------------------------------------- scenario B
\* The grid of scenario A with the middle cell blocking from the start.
InitScenarioB ==
  BootOn(ScenarioAGrid, NumCallers, {ScenarioACell}) /\ probe = NoProbe

SpecScenarioB == InitScenarioB /\ [][NextScenarioA]_vars

\* path is a walk on the mesh from start: each cell is in the adjacency
\* list of the one before it.
IsMeshWalk(mesh, start, path) ==
  \A i \in 1 .. Len(path) :
    path[i] \in Range(MeshGet(mesh, IF i = 1 THEN start ELSE path[i - 1]))

\* C25: with (2,2) blocking on the five by five grid, the search from
\* (0,0) to (4,4) on the mesh as built returns; its raw path is a walk on
\* the mesh that ends at the goal, has no blocking cell on it, (2,2) in
\* particular, and has more than 4 steps.
C25_RawPathIsMeshWalk ==
  \A j \in AllCalls :
    ( /\ call[j].pc = "done"
      /\ toggles = 0
      /\ MeshAsBuilt )
    => ( /\ ~call[j].raised
         /\ call[j].raw # NoPath
         /\ IsMeshWalk(nav_mesh, call[j].start, call[j].raw)
         /\ call[j].raw[Len(call[j].raw)] = call[j].goal
         /\ Range(call[j].raw) \cap map_data = {}
         /\ Len(call[j].raw) > 4 )

\* ------------------------------------------------- two calls for one key
\* C26: two find_path_async calls for the same key with their searches
\* both finished, on the mesh as built: each has counted a miss, both
\* searches returned a path, and the paths have the same raw cost; and
\* once both calls have been answered and nothing else has happened, the
\* cache holds the one entry of that key.
C26_TwinCallsBothSearch ==
  /\ ( /\ call[1].pc = "done"
       /\ call[2].pc = "done"
       /\ MeshAsBuilt )
     => ( /\ cache_misses >= 2
          /\ ~call[1].raised
          /\ ~call[2].raised
          /\ call[1].raw # NoPath
          /\ Len(call[1].raw) = Len(call[2].raw) )
  /\ ( /\ cache_misses = 2
       /\ calls_made = 2
       /\ \A j \in AllCalls : call[j].pc = "idle"
       /\ updates_made = 0
       /\ toggles = 0 )
     => DOMAIN path_cache = { <<ScenarioStart, ScenarioGoal>> }

\* ------------------------------------------------------------ cancellation
\* The task awaiting find_path_async is cancelled at the await of line 58
\* while a worker runs its search: the search is stopped with it.
AfterCancelPreempt(st) == NoSearch

\* The task awaiting find_path_async is cancelled at the await of line 58
\* while a worker runs its search: CancelledError is raised in the
\* coroutine, lines 65-69 are never run for it, and the worker thread,
\* which nothing can interrupt, goes on.
AfterCancel(st) == [st EXCEPT !.cancelled = TRUE]

CancelCall(j) ==
  /\ LoopFree
  /\ call[j].pc \in {"begin", "loop"}
  /\ ~call[j].cancelled
  /\ call' = [call EXCEPT ![j] = AfterCancel(call[j])]
  /\ resp' = [NoResp EXCEPT !.op = "find", !.kind = "cancelled"]
  /\ UNCHANGED << probe, mini_map, map_data, walkable_nodes, nav_mesh,
                  path_cache, cache_hits, cache_misses, upd, queue,
                  repairs_done, versions, cache_tag, toggles, calls_made,
                  updates_made >>

\* The worker's future completes with nobody awaiting it: its result, or
\* its exception, is dropped.
DiscardResult(j) ==
  /\ call[j].pc = "done"
  /\ call[j].cancelled
  /\ call' = [call EXCEPT ![j] = NoSearch]
  /\ UNCHANGED << probe, mini_map, map_data, walkable_nodes, nav_mesh,
                  path_cache, cache_hits, cache_misses, upd, queue,
                  repairs_done, versions, cache_tag, toggles, calls_made,
                  updates_made, resp >>

NextCancel ==
  \/ NextScenario
  \/ \E j \in Callers : CancelCall(j)
  \/ \E j \in Callers : DiscardResult(j)

SpecCancel == InitScenario /\ [][NextCancel]_vars

\* The jobs other than the search of call j that a worker is running.
JobsRunningBeside(j) ==
  Cardinality({ k \in Callers \ {j} : call[k].pc \in {"begin", "loop"} })
    + (IF upd.pc \in {"detect", "nodes"} THEN 1 ELSE 0)

\* C27: a search a worker is running only ever ends by completing, also
\* after its caller was cancelled; the result of a cancelled call is
\* dropped without a write to the cache and without an answer; and once
\* the search of a cancelled call is complete it holds no worker: the
\* next job of the queue can start unless other jobs keep both workers.
C27_CancelledSearchRunsOn ==
  [][ \A j \in Callers :
        /\ call[j].pc \in {"begin", "loop"}
             => call'[j].pc \in {"begin", "loop", "done"}
        /\ (call[j].cancelled /\ call'[j] # call[j])
             => (path_cache' = path_cache /\ resp' = resp)
        /\ ( /\ call[j].cancelled
              /\ call[j].pc = "done"
              /\ queue # << >>
              /\ JobsRunningBeside(j) < max_workers )
             => ENABLED ExecutorStart ]_vars

\* The search of a cancelled call has run to its end.
C27_Witness ==
  \E j \in Callers : call[j].cancelled /\ call[j].pc = "done"

\* ----------------------------------------------------------- start is goal
\* C28: a search from a cell to itself, on the mesh or off it, returns the
\* empty path; and get_next_step from a cell to itself returns the cell,
\* starts no search and changes neither the cache nor the counters.
C28_SameCellIsTrivial ==
  [][ /\ \A j \in AllCalls :
           ( /\ call[j].pc = "begin"
             /\ call'[j].pc # "begin"
             /\ call[j].start = call[j].goal )
           => ( /\ call'[j].pc = "done"
                /\ ~call'[j].raised
                /\ call'[j].path = NoPath
                /\ call'[j].raw = NoPath )
      /\ \A s \in InputCells :
           GetNextStep(s, s)
           => ( /\ resp'.op = "step"
                /\ resp'.kind = "cell"
                /\ resp'.cell = s
                /\ call' = call
                /\ path_cache' = path_cache
                /\ cache_hits' = cache_hits
                /\ cache_misses' = cache_misses ) ]_vars

\* A search from a cell off the mesh to itself has returned the empty
\* path.
C28_Witness ==
  \E j \in AllCalls :
    /\ call[j].pc = "done"
    /\ call[j].start = call[j].goal
    /\ call[j].start \notin DOMAIN nav_mesh
    /\ ~call[j].raised
    /\ call[j].path = NoPath

C30_CountersCountFindCalls ==
  [][ /\ \A j \in Callers, s \in InputCells, g \in InputCells :
           FindPathCall(j, s, g)
           => IF <<s, g>> \in DOMAIN path_cache
                THEN cache_hits' = cache_hits + 1 /\ cache_misses' = cache_misses
                ELSE cache_misses' = cache_misses + 1 /\ cache_hits' = cache_hits
      /\ ~(\E j \in Callers, s \in InputCells, g \in InputCells :
             FindPathCall(j, s, g))
           => (cache_hits' = cache_hits /\ cache_misses' = cache_misses)
      /\ cache_hits' >= cache_hits
      /\ cache_misses' >= cache_misses ]_vars

\* One find_path_async call was counted; a get_next_step call, an update
\* and a reading of the diagnostics have happened too.
C30_Witness ==
  /\ cache_hits + cache_misses = 1
  /\ calls_made = 2
  /\ updates_made >= 1
  /\ resp.op = "step"
  /\ probe.op = "stats"
  /\ probe.stats.cache_misses = 1

====
